---- MODULE Spec2Model ----
(***************************************************************************)
(* Zwijntje Hall of Fame: the data extraction run of                       *)
(* scripts/extract-data.js (fetch with retry, cell extraction, row         *)
(* interpretation, name canonicalisation, aggregation, write).             *)
(* The page that shows the written file is src/scripts/main.js: loading,  *)
(* filtering, sorting and rendering in the browser.                        *)
(*                                                                         *)
(* A JavaScript string is a sequence of characters.  A character is a     *)
(* one-element ASCII token: a plain character stands for itself, an        *)
(* accented letter is written base letter + accent name ("e_acute",        *)
(* "e_grave", "e_circ", "e_uml", "c_ced", "n_tilde"; "E_acute" is the      *)
(* capital), "ndash" is U+2013 and "nbsp" is U+00A0.                       *)
(***************************************************************************)
EXTENDS Integers, Sequences, FiniteSets, TLC

VARIABLES
    pc,               \* position of main(): "fetch", "stats", "write", "exit"
    srcIdx,           \* index into DATA_SOURCES of the source being fetched
    allResults,       \* main's allResults array
    outcomes,         \* per source already handled: whether it succeeded, and its page
    fetchState,       \* fetchUrl: "idle", "attempting", "backoff", "resolved", "rejected"
    remainingRetries, \* attempt()'s remainingRetries
    currentDelay,     \* attempt()'s currentDelay
    attempts,         \* number of https.get calls made by this fetchUrl call
    lastOutcome,      \* how the last attempt ended: kind "none", "error" or "status"
    waits,            \* the setTimeout delays of this fetchUrl call, in order
    playerMap,        \* buildPlayerStats: normalized key -> accumulator
    keyOrder,         \* insertion order of playerMap's keys
    ri,               \* index of the Result being folded
    wi,               \* index of the winner being folded within that Result
    players,          \* the array buildPlayerStats returns
    written,          \* the output file: "no", "yes", or "failed" when the write threw
    exitCode,         \* the exit code of the process, -1 while it runs
    \* the page in the browser (src/scripts/main.js)
    initPc,           \* position of init(): "start", "loading", "loaded", "ready"
    storedTheme,      \* localStorage's theme item, "" when there is none
    jsonFile,         \* the content of data/halloffame.json on the server
    loadResult,       \* how loadData ended: "pending", "ok", "abort", "http", "network", "json"
    hallOfFameData,   \* <<>> for null, else <<the parsed file>>
    allPlayers,       \* the players of the file
    filteredPlayers,  \* the players that pass the filters, in display order
    currentSort,      \* [column, direction]
    searchTimer,      \* whether the debounce timer of the search input is set
    dom               \* the parts of the document the scripts read and write

extractVars == <<pc, srcIdx, allResults, outcomes, fetchState, remainingRetries,
                 currentDelay, attempts, lastOutcome, waits, playerMap, keyOrder,
                 ri, wi, players, written, exitCode>>

browserVars == <<initPc, storedTheme, jsonFile, loadResult, hallOfFameData, allPlayers,
                 filteredPlayers, currentSort, searchTimer, dom>>

vars == <<extractVars, browserVars>>

fetchVars == <<fetchState, remainingRetries, currentDelay, attempts, lastOutcome, waits>>
statsVars == <<playerMap, keyOrder, ri, wi, players>>

-----------------------------------------------------------------------------
(* Characters *)

EnDash == "ndash"
Nbsp == "nbsp"

\* what /\s/ and String.prototype.trim treat as white space
WhiteSpace == {" ", "\t", "\n", Nbsp}

Digits == {"0", "1", "2", "3", "4", "5", "6", "7", "8", "9"}

DigitValue ==
    ("0" :> 0) @@ ("1" :> 1) @@ ("2" :> 2) @@ ("3" :> 3) @@ ("4" :> 4) @@
    ("5" :> 5) @@ ("6" :> 6) @@ ("7" :> 7) @@ ("8" :> 8) @@ ("9" :> 9)

\* String.prototype.toLowerCase, per character
LowerOf ==
    ("A" :> "a") @@ ("B" :> "b") @@ ("C" :> "c") @@ ("D" :> "d") @@ ("E" :> "e") @@
    ("F" :> "f") @@ ("G" :> "g") @@ ("H" :> "h") @@ ("I" :> "i") @@ ("J" :> "j") @@
    ("K" :> "k") @@ ("L" :> "l") @@ ("M" :> "m") @@ ("N" :> "n") @@ ("O" :> "o") @@
    ("P" :> "p") @@ ("Q" :> "q") @@ ("R" :> "r") @@ ("S" :> "s") @@ ("T" :> "t") @@
    ("U" :> "u") @@ ("V" :> "v") @@ ("W" :> "w") @@ ("X" :> "x") @@ ("Y" :> "y") @@
    ("Z" :> "z") @@
    ("E_acute" :> "e_acute") @@ ("E_grave" :> "e_grave") @@ ("E_circ" :> "e_circ") @@ ("E_uml" :> "e_uml") @@
    ("A_acute" :> "a_acute") @@ ("A_grave" :> "a_grave") @@ ("A_circ" :> "a_circ") @@ ("A_uml" :> "a_uml") @@
    ("I_acute" :> "i_acute") @@ ("I_grave" :> "i_grave") @@ ("I_circ" :> "i_circ") @@ ("I_uml" :> "i_uml") @@
    ("O_acute" :> "o_acute") @@ ("O_grave" :> "o_grave") @@ ("O_circ" :> "o_circ") @@ ("O_uml" :> "o_uml") @@
    ("U_acute" :> "u_acute") @@ ("U_grave" :> "u_grave") @@ ("U_circ" :> "u_circ") @@ ("U_uml" :> "u_uml") @@
    ("C_ced" :> "c_ced") @@ ("N_tilde" :> "n_tilde")

ToLowerChar(c) == IF c \in DOMAIN LowerOf THEN LowerOf[c] ELSE c

\* the character classes of normalizeName in its replace chain
AccentE == {"e_acute", "e_grave", "e_circ", "e_uml"}
AccentA == {"a_acute", "a_grave", "a_circ", "a_uml"}
AccentI == {"i_acute", "i_grave", "i_circ", "i_uml"}
AccentO == {"o_acute", "o_grave", "o_circ", "o_uml"}
AccentU == {"u_acute", "u_grave", "u_circ", "u_uml"}

FoldChar(c) ==
    IF c \in AccentE THEN "e"
    ELSE IF c \in AccentA THEN "a"
    ELSE IF c \in AccentI THEN "i"
    ELSE IF c \in AccentO THEN "o"
    ELSE IF c \in AccentU THEN "u"
    ELSE IF c = "c_ced" THEN "c"
    ELSE IF c = "n_tilde" THEN "n"
    ELSE c

\* the class of the countDiacritics regular expression, which has the i flag
DiacriticChars ==
    LET lower == AccentE \cup AccentA \cup AccentI \cup AccentO \cup AccentU
                 \cup {"c_ced", "n_tilde"}
    IN  lower \cup {c \in DOMAIN LowerOf : LowerOf[c] \in lower}

-----------------------------------------------------------------------------
(* Strings *)

\* String.prototype.toLowerCase
ToLowerCase(s) == [i \in 1..Len(s) |-> ToLowerChar(s[i])]

\* the seven accent replacements of normalizeName
FoldAccents(s) == [i \in 1..Len(s) |-> FoldChar(s[i])]

RECURSIVE TrimStart(_)
TrimStart(s) ==
    IF s # <<>> /\ Head(s) \in WhiteSpace THEN TrimStart(Tail(s)) ELSE s

RECURSIVE TrimEnd(_)
TrimEnd(s) ==
    IF s # <<>> /\ s[Len(s)] \in WhiteSpace
    THEN TrimEnd(SubSeq(s, 1, Len(s) - 1))
    ELSE s

\* String.prototype.trim
Trim(s) == TrimEnd(TrimStart(s))

\* .replace(/\s+/g, ' '): every maximal run of white space becomes one space
RECURSIVE CollapseSpaces(_)
CollapseSpaces(s) ==
    IF s = <<>> THEN <<>>
    ELSE IF Head(s) \in WhiteSpace
         THEN <<" ">> \o CollapseSpaces(TrimStart(s))
         ELSE <<Head(s)>> \o CollapseSpaces(Tail(s))

\* /^\d{4}$/.test(cell)
IsYear(cell) == Len(cell) = 4 /\ \A i \in 1..4 : cell[i] \in Digits

\* parseInt of a string of decimal digits
RECURSIVE ParseInt(_)
ParseInt(s) ==
    IF s = <<>> THEN 0
    ELSE 10 * ParseInt(SubSeq(s, 1, Len(s) - 1)) + DigitValue[s[Len(s)]]

-----------------------------------------------------------------------------
(* JavaScript values that are not strings *)

\* cells[i] for an index past the end of the array
Undefined == <<"undefined">>
\* Object.prototype.constructor and Object.prototype.__proto__, which every
\* object literal inherits
ObjectFunction == <<"function Object">>
ObjectPrototype == <<"Object.prototype">>

IsString(v) == v \notin {Undefined, ObjectFunction, ObjectPrototype}

\* ToBoolean
Truthy(v) == v # Undefined /\ v # <<>>

-----------------------------------------------------------------------------
(* The page before its script runs *)

\* let currentSort = { column: 'total', direction: 'desc' }
InitialSort == [column |-> "total", direction |-> "desc"]

\* what index.html itself puts in the table body and in the sort icons
StaticBody == [kind |-> "static", message |-> "", rows |-> <<>>]
StaticIcon == [column |-> "static", direction |-> "static"]

StaticDom(theme, minWins) ==
    [theme |-> theme, searchInput |-> <<>>, minWins |-> minWins,
     sortIcon |-> StaticIcon, tbody |-> StaticBody,
     resultsCount |-> [count |-> -1, total |-> -1],
     totalPlayers |-> -1, totalWins |-> -1,
     topPlayer |-> [displayName |-> <<>>, totalWins |-> -1]]

\* no page is open while the extraction runs
NoPage ==
    /\ initPc = "start"
    /\ storedTheme = ""
    /\ jsonFile = <<>>
    /\ loadResult = "pending"
    /\ hallOfFameData = <<>>
    /\ allPlayers = <<>>
    /\ filteredPlayers = <<>>
    /\ currentSort = InitialSort
    /\ searchTimer = FALSE
    /\ dom = StaticDom("light", <<"1">>)

-----------------------------------------------------------------------------
(* Name Canonicalizer *)

NAME_MAPPINGS ==
    (<<"a", "n", "e", "t", "t", "e", " ", "v", "a", "n", " ", "v", "e", "l", "z", "e", "n">>
        :> <<"A", "n", "e", "t", "t", "e", " ", "B", "o", "l", "u", "i", "j", "t">>) @@
    (<<"v", "i", "k", "a", "s", " ", "a", "r", "u", "m", "u", "g", "a", "n">>
        :> <<"V", "i", "k", "a", "s", " ", "A", "r", "u", "m", "u", "g", "a", "m">>) @@
    (<<"r", "o", "y", " ", "d", "e", "r", "k", "s", "e", "n">>
        :> <<"R", "o", "y", " ", "D", "e", "r", "k", "s">>) @@
    (<<"j", "a", "n", " ", "v", "a", "n", " ", "d", "e", " ", "b", "o", "s", "c", "h">>
        :> <<"J", "a", "n", " ", "v", "a", "n", " ", "d", "e", "n", " ", "B", "o", "s", "c", "h">>) @@
    (<<"c", "h", "a", "n", "t", "a", "l", " ", "k", "a", "m", "p", "h", "u", "i", "s">>
        :> <<"C", "h", "a", "n", "t", "a", "l", " ", "B", "r", "i", "n", "k", "s", "-",
             "K", "a", "m", "p", "h", "u", "i", "s">>) @@
    (<<"b", "e", "r", "t", " ", "j", "a", "n", " ", "r", "i", "e", "t", "v", "e", "l", "d">>
        :> <<"B", "e", "r", "t", "-", "J", "a", "n", " ", "R", "i", "e", "t", "v", "e", "l", "d">>)

\* the lower-case property names NAME_MAPPINGS inherits from Object.prototype
InheritedProperties ==
    (<<"c", "o", "n", "s", "t", "r", "u", "c", "t", "o", "r">> :> ObjectFunction) @@
    (<<"_", "_", "p", "r", "o", "t", "o", "_", "_">> :> ObjectPrototype)

\* NAME_MAPPINGS[key]: own property, else the prototype chain, else undefined
LookupMapping(key) ==
    IF key \in DOMAIN NAME_MAPPINGS THEN NAME_MAPPINGS[key]
    ELSE IF key \in DOMAIN InheritedProperties THEN InheritedProperties[key]
    ELSE Undefined

normalizeName_FoldFirst(name) ==
    CollapseSpaces(Trim(ToLowerCase(FoldAccents(name))))

normalizeName(name) ==
    CollapseSpaces(FoldAccents(Trim(ToLowerCase(name))))

applyNameMapping_RawKey(name) ==
    IF Truthy(LookupMapping(name)) THEN LookupMapping(name) ELSE name

applyNameMapping(name) ==
    LET normalized == normalizeName(name)
    IN  IF Truthy(LookupMapping(normalized)) THEN LookupMapping(normalized) ELSE name

countDiacritics(str) == Cardinality({i \in 1..Len(str) : str[i] \in DiacriticChars})

\* text.split(/,|\sen\s/): cur is the piece being collected
RECURSIVE SplitNames(_, _)
SplitNames(s, cur) ==
    IF s = <<>> THEN <<cur>>
    ELSE IF Head(s) = "," THEN <<cur>> \o SplitNames(Tail(s), <<>>)
    ELSE IF /\ Len(s) >= 4
            /\ s[1] \in WhiteSpace /\ s[2] = "e" /\ s[3] = "n" /\ s[4] \in WhiteSpace
         THEN <<cur>> \o SplitNames(SubSeq(s, 5, Len(s)), <<>>)
    ELSE SplitNames(Tail(s), cur \o <<Head(s)>>)

IsDash(s) == s = <<EnDash>> \/ s = <<"-">>

extractNames(text) ==
    IF ~Truthy(text) \/ IsDash(text) \/ Trim(text) = <<>> THEN <<>>
    ELSE LET trimmed == [i \in 1..Len(SplitNames(text, <<>>)) |->
                             Trim(SplitNames(text, <<>>)[i])]
         IN  SelectSeq(trimmed, LAMBDA name : Truthy(name) /\ ~IsDash(name))

-----------------------------------------------------------------------------
(* Configuration *)

DATA_SOURCES == <<
    [name |-> "Doubletten Kampioenschappen", type |-> "championship", category |-> "doubletten"],
    [name |-> "Mix Kampioenschappen",        type |-> "championship", category |-> "mix"],
    [name |-> "Tete-a-tete Kampioenschappen", type |-> "championship", category |-> "tete-a-tete"],
    [name |-> "Tripletten Kampioenschappen", type |-> "championship", category |-> "tripletten"],
    [name |-> "Doubletten Competities",      type |-> "competition",  category |-> "doubletten"],
    [name |-> "Tripletten Competities",      type |-> "competition",  category |-> "tripletten"],
    [name |-> "Zomercyclus",                 type |-> "competition",  category |-> "zomercyclus"] >>

NumSources == Len(DATA_SOURCES)

\* the keys of the presentation layer's CATEGORY_MAP
CATEGORY_MAP_KEYS == {
    "championship_doubletten",
    "championship_mix",
    "championship_tete-a-tete-heren",
    "championship_tete-a-tete-dames",
    "championship_tripletten",
    "competition_doubletten",
    "competition_tripletten",
    "competition_zomercyclus" }

-----------------------------------------------------------------------------
(* Cell Extractor.  A page is the sequence of the inner texts of its <td>    *)
(* elements, as the regular expression captures them; in an inner text a    *)
(* tag and a character reference are one token each.                        *)

TagTokens == {"<strong>", "</strong>", "<br>", "<p>", "</p>"}

entities ==
    ("&#8211;" :> EnDash) @@ ("&nbsp;" :> " ") @@ ("&amp;" :> "&") @@
    ("&lt;" :> "<") @@ ("&gt;" :> ">") @@ ("&quot;" :> "\"") @@ ("&#39;" :> "'")

DecodeEntity(c) == IF c \in DOMAIN entities THEN entities[c] ELSE c

DecodeEntities(s) == [i \in 1..Len(s) |-> DecodeEntity(s[i])]

parseTableData(html) ==
    [k \in 1..Len(html) |->
        Trim(DecodeEntities(SelectSeq(html[k], LAMBDA c : c \notin TagTokens)))]

-----------------------------------------------------------------------------
(* Row Interpreter.  Indices are JavaScript's, counted from 0.              *)

At(cells, i) == IF i < Len(cells) THEN cells[i + 1] ELSE Undefined

MakeResult(year, source, winners) ==
    [year |-> ParseInt(year), category |-> source.category, type |-> source.type,
     poule |-> "A", winners |-> winners]

\* the test the zomercyclus and tete-a-tete branches apply to a winner cell
IsSingleWinner(winner) == Truthy(winner) /\ winner # <<EnDash>>

RECURSIVE ProcessZomercyclus(_, _, _)
ProcessZomercyclus(cells, source, i) ==
    IF ~(i < Len(cells)) THEN <<>>
    ELSE LET year == At(cells, i)
             winner == At(cells, i + 1)
             emitted == IF Truthy(year) /\ IsYear(year) /\ IsSingleWinner(winner)
                        THEN <<MakeResult(year, source, <<winner>>)>>
                        ELSE <<>>
         IN  emitted \o ProcessZomercyclus(cells, source, i + 2)

RECURSIVE ProcessTeteATete(_, _, _)
ProcessTeteATete(cells, source, i) ==
    IF ~(i < Len(cells)) THEN <<>>
    ELSE LET year == At(cells, i)
             menWinner == At(cells, i + 1)
             womenWinner == At(cells, i + 2)
             isRow == Truthy(year) /\ IsYear(year)
             men == IF isRow /\ IsSingleWinner(menWinner)
                    THEN <<MakeResult(year, source, <<menWinner>>)>> ELSE <<>>
             women == IF isRow /\ IsSingleWinner(womenWinner)
                      THEN <<MakeResult(year, source, <<womenWinner>>)>> ELSE <<>>
         IN  men \o women \o ProcessTeteATete(cells, source, i + 3)

\* while (i < cells.length && !/^\d{4}$/.test(cells[i])) i++
RECURSIVE SkipToYear(_, _)
SkipToYear(cells, i) ==
    IF i < Len(cells) /\ ~IsYear(At(cells, i)) THEN SkipToYear(cells, i + 1) ELSE i

RECURSIVE ProcessPoules_AllPoules(_, _, _)
ProcessPoules_AllPoules(cells, source, i) ==
    IF ~(i < Len(cells)) THEN <<>>
    ELSE IF ~IsYear(At(cells, i)) THEN ProcessPoules_AllPoules(cells, source, i + 1)
    ELSE LET year == At(cells, i)
             last == SkipToYear(cells, i + 1)
             emitted == [k \in 1..(last - i - 1) |->
                            MakeResult(year, source, extractNames(At(cells, i + k)))]
         IN  SelectSeq(emitted, LAMBDA r : Len(r.winners) > 0)
             \o ProcessPoules_AllPoules(cells, source, last)

RECURSIVE ProcessPoules(_, _, _)
ProcessPoules(cells, source, i) ==
    IF ~(i < Len(cells)) THEN <<>>
    ELSE IF ~IsYear(At(cells, i)) THEN ProcessPoules(cells, source, i + 1)
    ELSE LET year == At(cells, i)
             pouleA == At(cells, i + 1)
             names == extractNames(pouleA)
             emitted == IF /\ Truthy(pouleA) /\ pouleA # <<EnDash>> /\ Trim(pouleA) # <<>>
                           /\ Len(names) > 0
                        THEN <<MakeResult(year, source, names)>>
                        ELSE <<>>
         IN  emitted \o ProcessPoules(cells, source, SkipToYear(cells, i + 2))

processData(cells, source) ==
    IF source.category = "zomercyclus" THEN ProcessZomercyclus(cells, source, 2)
    ELSE IF source.category = "tete-a-tete" THEN ProcessTeteATete(cells, source, 3)
    ELSE ProcessPoules(cells, source, SkipToYear(cells, 0))

categoryKey(result) == result.type \o "_" \o result.category

-----------------------------------------------------------------------------
(* Aggregator *)

\* the first Result at or after index r that has a winner (forEach over an
\* empty winners array runs no callback); Len(results) + 1 when there is none
RECURSIVE NextResult(_, _)
NextResult(results, r) ==
    IF r > Len(results) \/ Len(results[r].winners) > 0 THEN r
    ELSE NextResult(results, r + 1)

\* the callback of result.winners.forEach for one winner whose canonical name
\* is a string: the playerMap after it
NewPlayer(canonicalName) ==
    [displayName |-> canonicalName, wins |-> <<>>, totalWins |-> 0]

PreferredName_AtLeast(stored, canonicalName) ==
    IF countDiacritics(canonicalName) >= countDiacritics(stored)
    THEN canonicalName
    ELSE stored

\* the stored display name gives way to a candidate with more diacritics
PreferredName(stored, canonicalName) ==
    IF countDiacritics(canonicalName) > countDiacritics(stored)
    THEN canonicalName
    ELSE stored

IncrementWins_Reset(wins, key) == (key :> 1) @@ wins

\* if (!player.wins[categoryKey]) player.wins[categoryKey] = 0;
\* player.wins[categoryKey]++
IncrementWins(wins, key) ==
    (key :> (IF key \in DOMAIN wins THEN wins[key] ELSE 0) + 1) @@ wins

CreditWinner_FreshOnRename(map, canonicalName, key) ==
    LET normalizedName == normalizeName(canonicalName)
        player ==
            IF /\ normalizedName \in DOMAIN map
               /\ PreferredName(map[normalizedName].displayName, canonicalName)
                    = map[normalizedName].displayName
            THEN map[normalizedName]
            ELSE NewPlayer(canonicalName)
    IN  (normalizedName :>
            [player EXCEPT !.wins = IncrementWins(@, key), !.totalWins = @ + 1]) @@ map

CreditWinner(map, canonicalName, key) ==
    LET normalizedName == normalizeName(canonicalName)
        player ==
            IF normalizedName \in DOMAIN map
            THEN [map[normalizedName] EXCEPT
                      !.displayName = PreferredName(@, canonicalName)]
            ELSE NewPlayer(canonicalName)
    IN  (normalizedName :>
            [player EXCEPT !.wins = IncrementWins(@, key), !.totalWins = @ + 1]) @@ map

\* Map keeps its keys in insertion order
RecordKey(order, canonicalName) ==
    IF \E k \in 1..Len(order) : order[k] = normalizeName(canonicalName)
    THEN order
    ELSE Append(order, normalizeName(canonicalName))

\* the comparator passed to Array.prototype.sort
ComparePlayers(a, b) == b.totalWins - a.totalWins

\* Array.prototype.sort is stable: an element goes behind every element
\* the comparator does not order strictly after it
RECURSIVE InsertPlayer(_, _)
InsertPlayer(sorted, p) ==
    IF sorted = <<>> THEN <<p>>
    ELSE IF ComparePlayers(Head(sorted), p) <= 0
         THEN <<Head(sorted)>> \o InsertPlayer(Tail(sorted), p)
         ELSE <<p>> \o sorted

RECURSIVE SortPlayers(_)
SortPlayers(list) ==
    IF list = <<>> THEN <<>>
    ELSE InsertPlayer(SortPlayers(SubSeq(list, 1, Len(list) - 1)), list[Len(list)])

MapValues_Reversed(map, order) ==
    [k \in 1..Len(order) |-> map[order[Len(order) + 1 - k]]]

\* Array.from(playerMap.values())
MapValues(map, order) == [k \in 1..Len(order) |-> map[order[k]]]

-----------------------------------------------------------------------------
(* Fetcher: fetchUrl(url, retries = 3, delayMs = 500) *)

DefaultRetries == 3
DefaultDelayMs == 500

\* the status codes a response may carry; 0 stands for a missing statusCode
\* (res.statusCode || 0)
StatusCodes == {0, 200, 204, 301, 404, 429, 499, 500, 503, 599, 600}

shouldRetryStatus_OnlyListed(statusCode) ==
    statusCode \in {429, 500, 502, 503, 504}

shouldRetryStatus(statusCode) ==
    statusCode = 429 \/ (statusCode >= 500 /\ statusCode < 600)

\* no attempt of this fetchUrl call has ended yet
NoOutcome == [kind |-> "none", statusCode |-> 0]

Attempt_SameBudget(retriesLeft, delay) ==
    /\ fetchState' = "attempting"
    /\ remainingRetries' = remainingRetries
    /\ currentDelay' = delay
    /\ attempts' = attempts + 1

Attempt_FixedDelay(retriesLeft, delay) ==
    /\ fetchState' = "attempting"
    /\ remainingRetries' = retriesLeft
    /\ currentDelay' = DefaultDelayMs
    /\ attempts' = attempts + 1

\* attempt(remainingRetries, currentDelay): https.get is called
Attempt(retriesLeft, delay) ==
    /\ fetchState' = "attempting"
    /\ remainingRetries' = retriesLeft
    /\ currentDelay' = delay
    /\ attempts' = attempts + 1

\* setTimeout(() => attempt(remainingRetries - 1, currentDelay * 2), currentDelay)
ScheduleRetry ==
    /\ fetchState' = "backoff"
    /\ waits' = Append(waits, currentDelay)
    /\ UNCHANGED <<remainingRetries, currentDelay, attempts>>

Settle(state) ==
    /\ fetchState' = state
    /\ UNCHANGED <<remainingRetries, currentDelay, attempts, waits>>

\* main calls fetchUrl(source.url) for the next source
StartFetch ==
    /\ pc = "fetch"
    /\ fetchState = "idle"
    /\ fetchState' = "attempting"
    /\ remainingRetries' = DefaultRetries
    /\ currentDelay' = DefaultDelayMs
    /\ attempts' = 1
    /\ lastOutcome' = NoOutcome
    /\ waits' = <<>>
    /\ UNCHANGED <<pc, srcIdx, allResults, outcomes, statsVars, written, exitCode, browserVars>>

\* res.on('end'): the response is complete
ResponseEnd ==
    /\ fetchState = "attempting"
    /\ \E statusCode \in StatusCodes :
        /\ lastOutcome' = [kind |-> "status", statusCode |-> statusCode]
        /\ IF statusCode = 200 THEN Settle("resolved")
           ELSE IF shouldRetryStatus(statusCode) /\ remainingRetries > 0 THEN ScheduleRetry
           ELSE Settle("rejected")
    /\ UNCHANGED <<pc, srcIdx, allResults, outcomes, statsVars, written, exitCode, browserVars>>

\* req.on('error'): a connection-level error
RequestError ==
    /\ fetchState = "attempting"
    /\ lastOutcome' = [kind |-> "error", statusCode |-> 0]
    /\ IF remainingRetries > 0 THEN ScheduleRetry ELSE Settle("rejected")
    /\ UNCHANGED <<pc, srcIdx, allResults, outcomes, statsVars, written, exitCode, browserVars>>

\* the backoff timer fires
RetryTimer ==
    /\ fetchState = "backoff"
    /\ Attempt(remainingRetries - 1, currentDelay * 2)
    /\ UNCHANGED <<lastOutcome, waits>>
    /\ UNCHANGED <<pc, srcIdx, allResults, outcomes, statsVars, written, exitCode, browserVars>>

-----------------------------------------------------------------------------
(* The names and pages the runs are checked on *)

Piet == <<"P", "i", "e", "t">>
Klaas == <<"K", "l", "a", "a", "s">>
Marie == <<"M", "a", "r", "i", "e">>
Jan == <<"J", "a", "n">>
Els == <<"E", "l", "s">>
Tom == <<"T", "o", "m">>
JanJansen == <<"J", "a", "n", " ", "J", "a", "n", "s", "e", "n">>
Cedric == <<"C", "e", "d", "r", "i", "c">>
CedricAcute == <<"C", "e_acute", "d", "r", "i", "c">>
CedricGrave == <<"C", "e_grave", "d", "r", "i", "c">>
RoyDerksen == <<"R", "o", "y", " ", "D", "e", "r", "k", "s", "e", "n">>
RoyDerks == <<"R", "o", "y", " ", "D", "e", "r", "k", "s">>
RoyDerksAcute == <<"R", "o", "y", " ", "D", "e_acute", "r", "k", "s">>
Constructor == <<"C", "o", "n", "s", "t", "r", "u", "c", "t", "o", "r">>
Comma == <<",", " ">>
En == <<" ", "e", "n", " ">>
Y2019 == <<"2", "0", "1", "9">>
Y2020 == <<"2", "0", "2", "0">>
Y2021 == <<"2", "0", "2", "1">>
Jaar == <<"J", "a", "a", "r">>

\* the example page of the variable-width layout
PagePoules ==
    <<Jaar, <<"A">>, <<"B">>, Y2019, Piet \o Comma \o Klaas, Jan,
      Y2020, <<"<strong>">> \o Marie \o <<"</strong>">>, Els, Tom>>

\* a three-name cell, a dash and a blank cell in the Poule A column
PageTriples ==
    <<Jaar, <<"A">>, <<"B">>, <<"C">>, Y2019, Cedric \o Comma \o Klaas \o En \o RoyDerksen, Jan, Els,
      Y2020, <<"&#8211;">>, Tom, Y2021, <<"&nbsp;">>, Piet>>

\* a year cell directly after a year cell, and a hyphen in the Poule A column
PageYears ==
    <<Y2019, RoyDerksAcute \o Comma \o Piet, Jan, Y2020, <<"-">>, Els, Y2021, Y2019>>

PageTete ==
    <<Jaar, <<"H">>, <<"D">>, Y2020, CedricAcute, <<"&#8211;">>, Y2021, <<"-">>, Marie>>

PageTeteConstructor ==
    <<Jaar, <<"H">>, <<"D">>, Y2020, Jan, Constructor>>

\* the example page of the zomercyclus layout
PageZomer ==
    <<Jaar, <<"N">>, Y2020, JanJansen, Y2021, <<"&#8211;">>>>

PageZomerHyphen ==
    <<Jaar, <<"N">>, Y2020, <<"-">>, Y2021, Cedric>>

\* the pages a source may answer with
PagesOf(i) ==
    IF DATA_SOURCES[i].category = "zomercyclus" THEN {PageZomer, PageZomerHyphen}
    ELSE IF DATA_SOURCES[i].category = "tete-a-tete" THEN {PageTete, PageTeteConstructor}
    ELSE IF DATA_SOURCES[i].category = "doubletten" THEN {PagePoules}
    ELSE IF DATA_SOURCES[i].category = "tripletten" THEN {PageTriples}
    ELSE {PageYears}

-----------------------------------------------------------------------------
(* main() *)

\* allResults.push(...results)
PushResults(all, results) == all \o results

\* the catch block of the per-source try: the error is logged
CatchSourceError(all) == all

IdleFetch ==
    /\ fetchState' = "idle"
    /\ remainingRetries' = DefaultRetries
    /\ currentDelay' = DefaultDelayMs
    /\ attempts' = 0
    /\ lastOutcome' = NoOutcome
    /\ waits' = <<>>

\* the for loop moves on; after the last source buildPlayerStats is entered
NextSource(newResults) ==
    /\ srcIdx' = srcIdx + 1
    /\ allResults' = newResults
    /\ IdleFetch
    /\ IF srcIdx = NumSources
       THEN /\ pc' = "stats"
            /\ ri' = NextResult(newResults, 1)
            /\ wi' = 1
       ELSE UNCHANGED <<pc, ri, wi>>
    /\ UNCHANGED <<playerMap, keyOrder, players, written, exitCode, browserVars>>

\* the body of the try block for a page out of the given set
HandlePage(pages) ==
    /\ pc = "fetch"
    /\ fetchState = "resolved"
    /\ \E html \in pages :
        LET cells == parseTableData(html)
            results == processData(cells, DATA_SOURCES[srcIdx])
        IN  /\ outcomes' = Append(outcomes, [ok |-> TRUE, html |-> html])
            /\ NextSource(PushResults(allResults, results))

\* await fetchUrl resolved: parse, interpret, push
SourceSucceeded == HandlePage(PagesOf(srcIdx))

\* await fetchUrl rejected: the catch block
SourceFailed ==
    /\ pc = "fetch"
    /\ fetchState = "rejected"
    /\ outcomes' = Append(outcomes, [ok |-> FALSE, html |-> <<>>])
    /\ NextSource(CatchSourceError(allResults))

\* buildPlayerStats: one run of the winners.forEach callback.  A canonical
\* name that is not a string makes normalizeName throw a TypeError, which
\* leaves buildPlayerStats and main; main().catch exits with code 1.
Credit ==
    /\ pc = "stats"
    /\ ri <= Len(allResults)
    /\ LET result == allResults[ri]
           canonicalName == applyNameMapping(result.winners[wi])
       IN  IF IsString(canonicalName)
           THEN /\ playerMap' = CreditWinner(playerMap, canonicalName, categoryKey(result))
                /\ keyOrder' = RecordKey(keyOrder, canonicalName)
                /\ IF wi < Len(result.winners)
                   THEN wi' = wi + 1 /\ ri' = ri
                   ELSE wi' = 1 /\ ri' = NextResult(allResults, ri + 1)
                /\ UNCHANGED <<pc, exitCode>>
           ELSE /\ pc' = "exit"
                /\ exitCode' = 1
                /\ UNCHANGED <<playerMap, keyOrder, ri, wi>>
    /\ UNCHANGED <<srcIdx, allResults, outcomes, fetchVars, players, written, browserVars>>

\* buildPlayerStats returns the sorted array
ReturnPlayers ==
    /\ pc = "stats"
    /\ ri > Len(allResults)
    /\ players' = SortPlayers(MapValues(playerMap, keyOrder))
    /\ pc' = "write"
    /\ UNCHANGED <<srcIdx, allResults, outcomes, fetchVars, playerMap, keyOrder, ri, wi,
                   written, exitCode, browserVars>>

\* mkdirSync and writeFileSync: they succeed, or one throws and main().catch
\* exits with code 1
WriteOutput ==
    /\ pc = "write"
    /\ \E ok \in BOOLEAN :
        /\ written' = IF ok THEN "yes" ELSE "failed"
        /\ exitCode' = IF ok THEN 0 ELSE 1
    /\ pc' = "exit"
    /\ UNCHANGED <<srcIdx, allResults, outcomes, fetchVars, statsVars, browserVars>>

-----------------------------------------------------------------------------
(* The run *)

Init ==
    /\ pc = "fetch"
    /\ srcIdx = 1
    /\ allResults = <<>>
    /\ outcomes = <<>>
    /\ fetchState = "idle"
    /\ remainingRetries = DefaultRetries
    /\ currentDelay = DefaultDelayMs
    /\ attempts = 0
    /\ lastOutcome = NoOutcome
    /\ waits = <<>>
    /\ playerMap = <<>>
    /\ keyOrder = <<>>
    /\ ri = 1
    /\ wi = 1
    /\ players = <<>>
    /\ written = "no"
    /\ exitCode = -1
    /\ NoPage

Next ==
    \/ StartFetch
    \/ ResponseEnd
    \/ RequestError
    \/ RetryTimer
    \/ SourceSucceeded
    \/ SourceFailed
    \/ Credit
    \/ ReturnPlayers
    \/ WriteOutput

Spec == Init /\ [][Next]_vars

\* the steps the process takes by itself: timers it has set fire, and code
\* that is ready to run runs
ProcessStep ==
    \/ StartFetch
    \/ RetryTimer
    \/ SourceSucceeded
    \/ SourceFailed
    \/ Credit
    \/ ReturnPlayers
    \/ WriteOutput

\* the events the network delivers to an attempt
NetworkEvent ==
    \/ ResponseEnd
    \/ RequestError

-----------------------------------------------------------------------------
(* buildPlayerStats on every bounded sequence of Results *)

MaxResults == 3

RoyDerksLower == <<"r", "o", "y", " ", "d", "e", "r", "k", "s">>

StatNames ==
    {Jan, Cedric, CedricAcute, CedricGrave, RoyDerksen, RoyDerksAcute, RoyDerksLower,
     Constructor}

SampleResult(i, winners) == MakeResult(Y2020, DATA_SOURCES[i], winners)

SampleResults ==
    {SampleResult(1, <<n>>) : n \in StatNames}
    \cup {SampleResult(7, <<n>>) : n \in {Jan, Cedric, RoyDerksen}}
    \cup {SampleResult(1, <<Jan, CedricAcute>>), SampleResult(7, <<RoyDerksen, Jan>>)}

BoundedSeqs(S, n) == UNION {[1..k -> S] : k \in 0..n}

InitStats ==
    /\ pc = "stats"
    /\ srcIdx = NumSources + 1
    /\ allResults \in BoundedSeqs(SampleResults, MaxResults)
    /\ outcomes = <<>>
    /\ fetchState = "idle"
    /\ remainingRetries = DefaultRetries
    /\ currentDelay = DefaultDelayMs
    /\ attempts = 0
    /\ lastOutcome = NoOutcome
    /\ waits = <<>>
    /\ playerMap = <<>>
    /\ keyOrder = <<>>
    /\ ri = NextResult(allResults, 1)
    /\ wi = 1
    /\ players = <<>>
    /\ written = "no"
    /\ exitCode = -1
    /\ NoPage

NextStats ==
    \/ Credit
    \/ ReturnPlayers

SpecStats == InitStats /\ [][NextStats]_vars

-----------------------------------------------------------------------------
(* normalizeName on every bounded name, as buildPlayerStats applies it to   *)
(* the two winners of one Result                                            *)

MaxNameLen == 4

NameChars == {"C", "c", "e", "E_acute", " ", "\t"}

NameStrings == BoundedSeqs(NameChars, MaxNameLen)

NameTargets == {<<"c", "e">>, <<"c", " ", "e">>, <<"c", "e_acute">>}

InitNames ==
    /\ pc = "stats"
    /\ srcIdx = NumSources + 1
    /\ allResults \in {<<SampleResult(1, <<a, b>>)>> : a \in NameStrings, b \in NameTargets}
    /\ outcomes = <<>>
    /\ fetchState = "idle"
    /\ remainingRetries = DefaultRetries
    /\ currentDelay = DefaultDelayMs
    /\ attempts = 0
    /\ lastOutcome = NoOutcome
    /\ waits = <<>>
    /\ playerMap = <<>>
    /\ keyOrder = <<>>
    /\ ri = 1
    /\ wi = 1
    /\ players = <<>>
    /\ written = "no"
    /\ exitCode = -1
    /\ NoPage

NextNames ==
    \/ Credit
    \/ ReturnPlayers

SpecNames == InitNames /\ [][NextNames]_vars


MaxCells == 4

Y0123 == <<"0", "1", "2", "3">>
PietKlaas == Piet \o Comma \o Klaas

\* the inner texts a <td> of a bounded page may have
RowCells ==
    {Y2019, Y2020, Y0123, Jan, PietKlaas, <<"&#8211;">>, <<"-">>, <<"&nbsp;">>}

\* the first cells of a bounded page: none, a two-column and a three-column
\* header row, and rows that hold year cells
RowHeaders ==
    {<<>>, <<Jaar, <<"N">>>>, <<Jaar, <<"H">>, <<"D">>>>, <<Y2019, Jan, Y2020>>}

RowPages ==
    {h \o b : h \in RowHeaders, b \in BoundedSeqs(RowCells, MaxCells)}
    \cup {PagePoules, PageTriples, PageYears, PageTete, PageZomer, PageZomerHyphen}

\* one source of each layout
RowSources == {1, 3, 7}

InterpretPage == HandlePage(RowPages)

InitRows ==
    /\ pc = "fetch"
    /\ srcIdx \in RowSources
    /\ allResults = <<>>
    /\ outcomes = <<>>
    /\ fetchState = "resolved"
    /\ remainingRetries = DefaultRetries
    /\ currentDelay = DefaultDelayMs
    /\ attempts = 1
    /\ lastOutcome = [kind |-> "status", statusCode |-> 200]
    /\ waits = <<>>
    /\ playerMap = <<>>
    /\ keyOrder = <<>>
    /\ ri = 1
    /\ wi = 1
    /\ players = <<>>
    /\ written = "no"
    /\ exitCode = -1
    /\ NoPage

NextRows == InterpretPage

SpecRows == InitRows /\ [][NextRows]_vars

-----------------------------------------------------------------------------
(* The page in the browser: src/scripts/main.js *)

\* CATEGORY_MAP: category key -> id of the column
CATEGORY_MAP ==
    ("championship_doubletten" :> "champ-doubletten") @@
    ("championship_mix" :> "champ-mix") @@
    ("championship_tete-a-tete-heren" :> "champ-tete-heren") @@
    ("championship_tete-a-tete-dames" :> "champ-tete-dames") @@
    ("championship_tripletten" :> "champ-tripletten") @@
    ("competition_doubletten" :> "comp-doubletten") @@
    ("competition_tripletten" :> "comp-tripletten") @@
    ("competition_zomercyclus" :> "comp-zomer")

\* th.dataset.sort of the header cells that can be clicked; "" is a header
\* cell without the attribute
SortColumns ==
    {"", "rank", "name", "total"} \cup {CATEGORY_MAP[k] : k \in DOMAIN CATEGORY_MAP}

\* String.prototype.includes
Includes(s, term) ==
    \E i \in 0..(Len(s) - Len(term)) : SubSeq(s, i + 1, i + Len(term)) = term

\* the place of a lower-case letter in the alphabet
Letters ==
    <<"a", "b", "c", "d", "e", "f", "g", "h", "i", "j", "k", "l", "m",
      "n", "o", "p", "q", "r", "s", "t", "u", "v", "w", "x", "y", "z">>
LetterRank(c) == CHOOSE i \in 1..Len(Letters) : Letters[i] = c

\* a.localeCompare(b, 'nl') for two words of lower-case letters
RECURSIVE localeCompare(_, _)
localeCompare(a, b) ==
    IF a = <<>> /\ b = <<>> THEN 0
    ELSE IF a = <<>> THEN -1
    ELSE IF b = <<>> THEN 1
    ELSE IF Head(a) = Head(b) THEN localeCompare(Tail(a), Tail(b))
    ELSE IF LetterRank(Head(a)) < LetterRank(Head(b)) THEN -1 ELSE 1

\* parseInt(value) || 1 for the value of the minWins control
MinWinsOf(value) ==
    IF value = <<>> \/ ParseInt(value) = 0 THEN 1 ELSE ParseInt(value)

\* the filter callback of handleSearch and handleMinWinsChange
PassesFilters(player, searchTerm, minWins) ==
    /\ Includes(ToLowerCase(player.displayName), searchTerm)
    /\ player.totalWins >= minWins

\* allPlayers.filter(...) with the values of the two controls
FilterPlayers(list, searchInput, minWinsValue) ==
    SelectSeq(list, LAMBDA player :
        PassesFilters(player, Trim(ToLowerCase(searchInput)), MinWinsOf(minWinsValue)))

\* player.wins[categoryKey] || 0
WinsIn(player, key) == IF key \in DOMAIN player.wins THEN player.wins[key] ELSE 0

\* the comparator of sortPlayers
CompareBySort(a, b, sort) ==
    LET comparison ==
            IF sort.column = "name"
            THEN localeCompare(ToLowerCase(a.displayName), ToLowerCase(b.displayName))
            ELSE IF sort.column = "total" THEN a.totalWins - b.totalWins
            ELSE IF \E k \in DOMAIN CATEGORY_MAP : CATEGORY_MAP[k] = sort.column
                 THEN LET key ==
                              CHOOSE k \in DOMAIN CATEGORY_MAP : CATEGORY_MAP[k] = sort.column
                      IN  WinsIn(a, key) - WinsIn(b, key)
                 ELSE 0
    IN  IF sort.column = "rank" THEN 0
        ELSE IF sort.direction = "asc" THEN comparison ELSE 0 - comparison

\* Array.prototype.sort with that comparator; the sort is stable
RECURSIVE InsertBySort(_, _, _)
InsertBySort(sorted, p, sort) ==
    IF sorted = <<>> THEN <<p>>
    ELSE IF CompareBySort(Head(sorted), p, sort) <= 0
         THEN <<Head(sorted)>> \o InsertBySort(Tail(sorted), p, sort)
         ELSE <<p>> \o sorted

RECURSIVE sortPlayers(_, _)
sortPlayers(list, sort) ==
    IF list = <<>> THEN <<>>
    ELSE InsertBySort(sortPlayers(SubSeq(list, 1, Len(list) - 1), sort), list[Len(list)], sort)

\* renderTable, with updateResultsCount: the document after it
renderTable(d, filtered, all) ==
    [d EXCEPT
        !.tbody = IF Len(filtered) = 0
                  THEN [kind |-> "empty", message |-> "Geen resultaten gevonden", rows |-> <<>>]
                  ELSE [kind |-> "rows", message |-> "", rows |-> filtered],
        !.resultsCount = [count |-> Len(filtered), total |-> Len(all)]]

\* updateStats: the document after it
updateStats(d, filtered, all, data) ==
    [d EXCEPT
        !.totalPlayers = Len(filtered),
        !.totalWins = IF data # <<>> THEN data[1].allResults ELSE @,
        !.topPlayer = IF Len(all) > 0
                      THEN [displayName |-> all[1].displayName, totalWins |-> all[1].totalWins]
                      ELSE @]

\* the message loadData builds in its catch block
ErrorMessage(result) ==
    IF result = "abort" THEN "De verbinding duurde te lang"
    ELSE IF result = "http" THEN "Server fout"
    ELSE IF result = "network" THEN "Kan geen verbinding maken"
    ELSE "Probeer de pagina te verversen"

\* showError: the document after it
showError(d, message) ==
    [d EXCEPT !.tbody = [kind |-> "error", message |-> message, rows |-> <<>>]]

\* updateSortIndicators: the document after it
updateSortIndicators(d, sort) == [d EXCEPT !.sortIcon = sort]

\* init() up to the await: loadTheme, setupEventListeners, and loadData up to
\* its fetch
InitStart ==
    /\ initPc = "start"
    /\ initPc' = "loading"
    /\ dom' = [dom EXCEPT !.theme = IF storedTheme # "" THEN storedTheme ELSE "light"]
    /\ UNCHANGED <<storedTheme, jsonFile, loadResult, hallOfFameData, allPlayers,
                   filteredPlayers, currentSort, searchTimer>>
    /\ UNCHANGED extractVars

\* loadData: the response is ok and its body parses
LoadSucceeds ==
    /\ initPc = "loading"
    /\ initPc' = "loaded"
    /\ loadResult' = "ok"
    /\ hallOfFameData' = <<jsonFile>>
    /\ allPlayers' = jsonFile.players
    /\ filteredPlayers' = jsonFile.players
    /\ UNCHANGED <<storedTheme, jsonFile, currentSort, searchTimer, dom>>
    /\ UNCHANGED extractVars

\* loadData: the fetch is aborted by the timer, answers with a status that is
\* not ok, fails, or the body does not parse; the catch block shows the error
LoadFails ==
    /\ initPc = "loading"
    /\ initPc' = "loaded"
    /\ \E result \in {"abort", "http", "network", "json"} :
        /\ loadResult' = result
        /\ dom' = showError(dom, ErrorMessage(result))
    /\ UNCHANGED <<storedTheme, jsonFile, hallOfFameData, allPlayers, filteredPlayers,
                   currentSort, searchTimer>>
    /\ UNCHANGED extractVars

\* init() after the await: renderTable and updateStats
InitRender ==
    /\ initPc = "loaded"
    /\ initPc' = "ready"
    /\ dom' = updateStats(renderTable(dom, filteredPlayers, allPlayers),
                          filteredPlayers, allPlayers, hallOfFameData)
    /\ UNCHANGED <<storedTheme, jsonFile, loadResult, hallOfFameData, allPlayers,
                   filteredPlayers, currentSort, searchTimer>>
    /\ UNCHANGED extractVars

\* the listeners are installed and no code of the page is running
Listening == initPc \in {"loading", "ready"}

\* the values the user gives the two controls
SearchInputs == {<<>>, <<"E">>, <<"t", " ">>}
MinWinsValues == {<<"1">>, <<"2">>, <<>>}

\* the user types in the search input: the debounced listener resets its timer
TypeSearch ==
    /\ Listening
    /\ \E value \in SearchInputs : dom' = [dom EXCEPT !.searchInput = value]
    /\ searchTimer' = TRUE
    /\ UNCHANGED <<initPc, storedTheme, jsonFile, loadResult, hallOfFameData, allPlayers,
                   filteredPlayers, currentSort>>
    /\ UNCHANGED extractVars

\* the debounce timer fires: handleSearch
handleSearch ==
    /\ Listening
    /\ searchTimer
    /\ searchTimer' = FALSE
    /\ filteredPlayers' = FilterPlayers(allPlayers, dom.searchInput, dom.minWins)
    /\ dom' = updateStats(renderTable(dom, filteredPlayers', allPlayers),
                          filteredPlayers', allPlayers, hallOfFameData)
    /\ UNCHANGED <<initPc, storedTheme, jsonFile, loadResult, hallOfFameData, allPlayers,
                   currentSort>>
    /\ UNCHANGED extractVars

\* the user changes the minWins control: handleMinWinsChange
handleMinWinsChange ==
    /\ Listening
    /\ \E value \in MinWinsValues :
        LET changed == [dom EXCEPT !.minWins = value]
        IN  /\ filteredPlayers' = FilterPlayers(allPlayers, dom.searchInput, value)
            /\ dom' = updateStats(renderTable(changed, filteredPlayers', allPlayers),
                                  filteredPlayers', allPlayers, hallOfFameData)
    /\ UNCHANGED <<initPc, storedTheme, jsonFile, loadResult, hallOfFameData, allPlayers,
                   currentSort, searchTimer>>
    /\ UNCHANGED extractVars

\* the user clicks a header cell: handleSort
handleSort ==
    /\ Listening
    /\ \E sortColumn \in SortColumns :
        IF sortColumn = ""
        THEN UNCHANGED <<currentSort, filteredPlayers, dom>>
        ELSE /\ currentSort' =
                    IF currentSort.column = sortColumn
                    THEN [currentSort EXCEPT
                              !.direction = IF @ = "desc" THEN "asc" ELSE "desc"]
                    ELSE [column |-> sortColumn, direction |-> "desc"]
             /\ filteredPlayers' = sortPlayers(filteredPlayers, currentSort')
             /\ dom' = renderTable(updateSortIndicators(dom, currentSort'),
                                   filteredPlayers', allPlayers)
    /\ UNCHANGED <<initPc, storedTheme, jsonFile, loadResult, hallOfFameData, allPlayers,
                   searchTimer>>
    /\ UNCHANGED extractVars

\* the user clicks the theme button: toggleTheme
toggleTheme ==
    /\ Listening
    /\ LET newTheme == IF dom.theme = "light" THEN "dark" ELSE "light"
       IN  /\ dom' = [dom EXCEPT !.theme = newTheme]
           /\ storedTheme' = newTheme
    /\ UNCHANGED <<initPc, jsonFile, loadResult, hallOfFameData, allPlayers,
                   filteredPlayers, currentSort, searchTimer>>
    /\ UNCHANGED extractVars

MaxPlayers == 3

\* the winner entries behind a list of players
RECURSIVE SumTotalWins(_)
SumTotalWins(list) ==
    IF list = <<>> THEN 0 ELSE Head(list).totalWins + SumTotalWins(Tail(list))

\* players as buildPlayerStats writes them
BrowserPlayer(name, doubletten, zomercyclus) ==
    [displayName |-> name,
     wins |-> LET counts == ("championship_doubletten" :> doubletten)
                            @@ ("competition_zomercyclus" :> zomercyclus)
              IN  [k \in {c \in DOMAIN counts : counts[c] > 0} |-> counts[k]],
     totalWins |-> doubletten + zomercyclus]

BrowserPlayers ==
    {BrowserPlayer(Tom, 1, 2), BrowserPlayer(Els, 2, 0), BrowserPlayer(Jan, 0, 1),
     BrowserPlayer(Piet, 1, 0)}

\* the files the extraction can have written: players of different names,
\* ordered by totalWins descending
BrowserFiles ==
    {[players |-> list, allResults |-> SumTotalWins(list)] :
        list \in {l \in BoundedSeqs(BrowserPlayers, MaxPlayers) :
                     \A i, j \in 1..Len(l) :
                         i < j => l[i] # l[j] /\ l[i].totalWins >= l[j].totalWins}}

InitBrowser ==
    /\ pc = "exit"
    /\ srcIdx = NumSources + 1
    /\ allResults = <<>>
    /\ outcomes = <<>>
    /\ fetchState = "idle"
    /\ remainingRetries = DefaultRetries
    /\ currentDelay = DefaultDelayMs
    /\ attempts = 0
    /\ lastOutcome = NoOutcome
    /\ waits = <<>>
    /\ playerMap = <<>>
    /\ keyOrder = <<>>
    /\ ri = 1
    /\ wi = 1
    /\ jsonFile \in BrowserFiles
    /\ players = jsonFile.players
    /\ written = "yes"
    /\ exitCode = 0
    /\ initPc = "start"
    /\ storedTheme \in {"", "dark"}
    /\ loadResult = "pending"
    /\ hallOfFameData = <<>>
    /\ allPlayers = <<>>
    /\ filteredPlayers = <<>>
    /\ currentSort = InitialSort
    /\ searchTimer = FALSE
    /\ dom \in {StaticDom("light", v) : v \in MinWinsValues}

NextBrowser ==
    \/ InitStart
    \/ LoadSucceeds
    \/ LoadFails
    \/ InitRender
    \/ TypeSearch
    \/ handleSearch
    \/ handleMinWinsChange
    \/ handleSort
    \/ toggleTheme

SpecBrowser == InitBrowser /\ [][NextBrowser]_vars

-----------------------------------------------------------------------------
(* Helpers of the properties *)

RECURSIVE SumWinners(_)
SumWinners(results) ==
    IF results = <<>> THEN 0 ELSE Len(Head(results).winners) + SumWinners(Tail(results))

RECURSIVE SumValues(_, _)
SumValues(f, keys) ==
    IF keys = {} THEN 0
    ELSE LET k == CHOOSE x \in keys : TRUE IN f[k] + SumValues(f, keys \ {k})

\* the winner entries of a Result sequence, in forEach order
RECURSIVE Winners(_)
Winners(results) ==
    IF results = <<>> THEN <<>> ELSE Head(results).winners \o Winners(Tail(results))

\* the grouping key of a raw winner name
KeyOf(name) == normalizeName(applyNameMapping(name))

\* the position in the winner entries at which a key is first seen
FirstSeen(key, names) == CHOOSE i \in 1..Len(names) :
    /\ KeyOf(names[i]) = key
    /\ \A j \in 1..(i - 1) : KeyOf(names[j]) # key

\* buildPlayerStats has returned its array
Returned == pc = "write"

-----------------------------------------------------------------------------
(* C1: for every sequence of Results the sum of totalWins over the returned *)
(* players equals the sum of the lengths of the winners lists.              *)
C1_TotalWinsEqualWinnerEntries ==
    Returned => SumTotalWins(players) = SumWinners(allResults)

C1_Witness ==
    /\ Returned
    /\ Len(players) = 2
    /\ SumWinners(allResults) = 4
    /\ \E r \in 1..Len(allResults) : Len(allResults[r].winners) = 2

\* C2: after every winner credit each accumulator has totalWins equal to the
\* sum of its wins map, and every key present in wins has a count of at least 1.
C2_TotalIsSumOfWins ==
    \A key \in DOMAIN playerMap :
        /\ playerMap[key].totalWins =
               SumValues(playerMap[key].wins, DOMAIN playerMap[key].wins)
        /\ \A c \in DOMAIN playerMap[key].wins : playerMap[key].wins[c] >= 1

C2_Witness ==
    /\ pc = "stats"
    /\ \E key \in DOMAIN playerMap :
        /\ playerMap[key].totalWins = 3
        /\ Cardinality(DOMAIN playerMap[key].wins) = 2

\* C3: the returned list is ordered by totalWins descending, and players with
\* equal totalWins appear in the order in which their keys were first seen in
\* the Result sequence.
C3_SortedDescendingStable ==
    Returned =>
        \A i, j \in 1..Len(players) :
            i < j =>
                /\ players[i].totalWins >= players[j].totalWins
                /\ players[i].totalWins = players[j].totalWins =>
                       FirstSeen(normalizeName(players[i].displayName), Winners(allResults))
                         < FirstSeen(normalizeName(players[j].displayName), Winners(allResults))

C3_Witness ==
    /\ Returned
    /\ Len(players) = 3
    /\ players[1].totalWins > players[2].totalWins
    /\ players[2].totalWins = players[3].totalWins
    /\ normalizeName(players[1].displayName) = keyOrder[3]

\* a raw name whose normalized form is a key of the Name Mapping Table
IsMapped(name) == normalizeName(name) \in DOMAIN NAME_MAPPINGS
MappedValue(name) == NAME_MAPPINGS[normalizeName(name)]

\* the returned player with the given key has the given display name
ShownAs(key, displayName) ==
    \E p \in 1..Len(players) :
        /\ normalizeName(players[p].displayName) = key
        /\ players[p].displayName = displayName

\* among the candidate names of target's key, another spelling has strictly
\* more diacritics than target, or as many and was seen before target was
Overridden(target, names) ==
    \E q \in 1..Len(names) :
        LET c == applyNameMapping(names[q])
        IN  /\ normalizeName(c) = normalizeName(target)
            /\ c # target
            /\ \/ countDiacritics(c) > countDiacritics(target)
               \/ /\ countDiacritics(c) = countDiacritics(target)
                  /\ \A j \in 1..q : applyNameMapping(names[j]) # target

\* C4 as stated: whenever a mapped raw name occurs among the winners, the
\* Player it is credited to has the mapped value as displayName.
C4_MappedNameIsDisplayName ==
    Returned =>
        \A i \in 1..Len(Winners(allResults)) :
            IsMapped(Winners(allResults)[i]) =>
                ShownAs(normalizeName(MappedValue(Winners(allResults)[i])),
                        MappedValue(Winners(allResults)[i]))

\* C4 amended: a mapped raw name is credited to the Player keyed by the
\* normalized mapped value, and that Player's displayName is the mapped value
\* exactly when no other spelling of the same key overrides it (one with
\* strictly more diacritics, or one with as many that was seen earlier).
C4_MappedNameUnlessOverridden ==
    Returned =>
        \A i \in 1..Len(Winners(allResults)) :
            IsMapped(Winners(allResults)[i]) =>
                LET target == MappedValue(Winners(allResults)[i])
                IN  /\ \E p \in 1..Len(players) :
                           normalizeName(players[p].displayName) = normalizeName(target)
                    /\ ShownAs(normalizeName(target), target)
                           <=> ~Overridden(target, Winners(allResults))

C4_Witness ==
    /\ Returned
    /\ Len(allResults) = 2
    /\ Winners(allResults) = <<RoyDerksen, RoyDerksLower>>
    /\ Len(players) = 1
    /\ players[1].displayName = RoyDerks
    /\ players[1].totalWins = 2

-----------------------------------------------------------------------------
(* Properties of the run *)

\* a winner cell that is empty, white space only, the en dash or the hyphen
IsPlaceholder(cell) == Trim(cell) = <<>> \/ IsDash(cell)

\* C5: a placeholder winner cell never produces a Result and never a winner
\* credit, in any source category.
C5_PlaceholderNeverCredited ==
    /\ \A r \in 1..Len(allResults) :
           \A w \in 1..Len(allResults[r].winners) :
               ~IsPlaceholder(allResults[r].winners[w])
    /\ \A key \in DOMAIN playerMap : ~IsPlaceholder(playerMap[key].displayName)

\* the category keys emitted so far: those of the Results and of players' wins
EmittedKeys ==
    {categoryKey(allResults[r]) : r \in 1..Len(allResults)}
    \cup UNION {DOMAIN playerMap[key].wins : key \in DOMAIN playerMap}

\* C6: every category key the extractor emits is a key of CATEGORY_MAP, so no
\* emitted win falls outside a display column.
C6_EmittedKeysAreDisplayColumns == EmittedKeys \subseteq CATEGORY_MAP_KEYS

\* C7 as stated: one fetchUrl call makes at most 3 HTTP request attempts.
C7_AtMostThreeAttempts == attempts <= 3

\* C7 amended: one fetchUrl call with default arguments makes at most 4 HTTP
\* request attempts, the first one and at most 3 retries.
C7_AtMostFourAttempts == attempts <= 4

C7_Witness ==
    /\ attempts = 4
    /\ fetchState = "rejected"
    /\ Len(waits) = 3

\* an attempt of fetchUrl ends in this step
AttemptEnds == fetchState = "attempting" /\ fetchState' # "attempting"

\* what has to follow the end of an attempt when retryable is the set of the
\* transient statuses
FollowsRetryPolicy(retryable) ==
    AttemptEnds =>
        IF lastOutcome'.kind = "status" /\ lastOutcome'.statusCode = 200
        THEN fetchState' = "resolved"
        ELSE IF /\ lastOutcome'.kind = "error" \/ lastOutcome'.statusCode \in retryable
                /\ remainingRetries > 0
             THEN fetchState' = "backoff"
             ELSE fetchState' = "rejected"

\* a backoff ends only in the next attempt
BackoffLeadsToAttempt ==
    (fetchState = "backoff" /\ fetchState' # "backoff") =>
        (fetchState' = "attempting" /\ attempts' = attempts + 1)

RetryableBelow599 == {429} \cup {s \in StatusCodes : s >= 500 /\ s < 599}

RetryableBelow600 == {429} \cup {s \in StatusCodes : s >= 500 /\ s < 600}

\* C8 as stated: a failed attempt is followed by another attempt exactly when
\* it ended in a connection error or in a status that is 429 or has
\* 500 <= status < 599, and retries remain; otherwise the fetch rejects at once.
C8_RetryIffTransientBelow599 ==
    [][FollowsRetryPolicy(RetryableBelow599) /\ BackoffLeadsToAttempt]_vars

\* C8 amended: the same with 500 <= status < 600 (599 is retried too); every
\* other status that is not 200 rejects the fetch at once, whatever number of
\* retries remains.
C8_RetryIffTransientBelow600 ==
    [][FollowsRetryPolicy(RetryableBelow600) /\ BackoffLeadsToAttempt]_vars

C8_Witness ==
    /\ fetchState = "rejected"
    /\ lastOutcome = [kind |-> "status", statusCode |-> 404]
    /\ remainingRetries = 2
    /\ attempts = 2

\* the Results of the sources handled so far that succeeded, in source order
RECURSIVE ResultsOfSucceeded(_)
ResultsOfSucceeded(done) ==
    IF done = <<>> THEN <<>>
    ELSE ResultsOfSucceeded(SubSeq(done, 1, Len(done) - 1))
         \o (IF done[Len(done)].ok
             THEN processData(parseTableData(done[Len(done)].html),
                              DATA_SOURCES[Len(done)])
             ELSE <<>>)

\* a failing source contributes nothing and changes nothing about the others
PartialResults ==
    /\ allResults = ResultsOfSucceeded(outcomes)
    /\ pc = "fetch" => exitCode = -1 /\ Len(outcomes) = srcIdx - 1
    /\ pc # "fetch" => Len(outcomes) = NumSources

\* C9: for every subset of failing sources the run still reaches the write
\* step, and allResults is the concatenation of the Results of the sources
\* that succeeded.
C9_ReachesWriteWithPartialResults ==
    /\ PartialResults
    /\ pc = "exit" => written # "no"

\* C10: the run exits with code 0 for every combination of per-source
\* failures and every content of the pages, and non-zero only when the
\* output file cannot be written.
C10_NonZeroOnlyOnWriteFault ==
    pc = "exit" => (exitCode = 0 <=> written = "yes") /\ (exitCode = 1 <=> written = "failed")

-----------------------------------------------------------------------------
(* Properties of the components *)

\* the candidate display names seen for a key, in the order seen
Candidates(key, names) ==
    LET mapped == [i \in 1..Len(names) |-> applyNameMapping(names[i])]
    IN  SelectSeq(mapped, LAMBDA c : normalizeName(c) = key)

\* the first of the candidates that has the maximum diacritic count
FirstWithMostDiacritics(cands) ==
    cands[CHOOSE i \in 1..Len(cands) :
        /\ \A j \in 1..Len(cands) : countDiacritics(cands[j]) <= countDiacritics(cands[i])
        /\ \A j \in 1..(i - 1) : countDiacritics(cands[j]) < countDiacritics(cands[i])]

\* C11: a returned Player's displayName is a candidate name with the maximum
\* diacritic count among the candidates seen for its key, and among those with
\* the maximum it is the first one seen.
C11_DisplayNameFirstWithMostDiacritics ==
    Returned =>
        \A p \in 1..Len(players) :
            players[p].displayName =
                FirstWithMostDiacritics(
                    Candidates(normalizeName(players[p].displayName), Winners(allResults)))

C11_Witness ==
    /\ Returned
    /\ Winners(allResults) = <<Cedric, CedricGrave, CedricAcute>>
    /\ Len(players) = 1
    /\ players[1].displayName = CedricGrave

\* a page has been interpreted: its cells, its source and the Results emitted
Interpreted == Len(outcomes) = 1 /\ outcomes[1].ok
PageCells == parseTableData(outcomes[1].html)
PageSource == DATA_SOURCES[srcIdx - 1]

IsVariableWidth(source) == source.category \notin {"zomercyclus", "tete-a-tete"}

\* the number of year cells that directly precede position i, one after another
YearsBefore(cells, i) ==
    CHOOSE n \in 0..(i - 1) :
        /\ \A j \in (i - n)..(i - 1) : IsYear(cells[j])
        /\ n < i - 1 => ~IsYear(cells[i - n - 1])

\* position i holds the year cell of a row: a year cell that is not the
\* Poule A cell of the row before it
IsRowStart(cells, i) == IsYear(cells[i]) /\ YearsBefore(cells, i) % 2 = 0

\* the Result of the year row that starts at position i: the names of the
\* cell that follows the year cell, if there are any
PouleAResult(cells, source, i) ==
    IF i < Len(cells) /\ extractNames(cells[i + 1]) # <<>>
    THEN << [year |-> ParseInt(cells[i]), category |-> source.category,
             type |-> source.type, poule |-> "A",
             winners |-> extractNames(cells[i + 1])] >>
    ELSE <<>>

RECURSIVE PouleAResults(_, _, _)
PouleAResults(cells, source, i) ==
    IF i > Len(cells) THEN <<>>
    ELSE (IF IsRowStart(cells, i) THEN PouleAResult(cells, source, i) ELSE <<>>)
         \o PouleAResults(cells, source, i + 1)

\* C12: in a variable-width category each year row yields at most one Result,
\* built only from the names of the cell that follows the year cell (Poule A);
\* the further cells of the row (Poule B, Poule C) yield no Result and no
\* winner, in a row of 3 cells and in a row of 4.
C12_OnlyPouleACounts ==
    (Interpreted /\ IsVariableWidth(PageSource)) =>
        allResults = PouleAResults(PageCells, PageSource, 1)

C12_Witness ==
    /\ Interpreted
    /\ IsVariableWidth(PageSource)
    /\ outcomes[1].html = PagePoules
    /\ Len(allResults) = 2
    /\ allResults[1].winners = <<Piet, Klaas>>
    /\ allResults[2].winners = <<Marie>>

\* the placeholder dashes of the specification, and the one the fixed-width
\* branches of processData test for
BothDashes == {<<EnDash>>, <<"-">>}
EnDashOnly == {<<EnDash>>}

\* the Result of a single winner cell at position w of the row whose year cell
\* is at position y, when dashes are the cells that stand for no winner
SingleWinnerResult(cells, source, y, w, dashes) ==
    IF /\ IsYear(cells[y])
       /\ w <= Len(cells)
       /\ Trim(cells[w]) # <<>>
       /\ cells[w] \notin dashes
    THEN << [year |-> ParseInt(cells[y]), category |-> source.category,
             type |-> source.type, poule |-> "A", winners |-> <<cells[w]>>] >>
    ELSE <<>>

\* the Results of the rows of the given width from position i on, one Result
\* per winner column of a row, in column order
RECURSIVE FixedRowResults(_, _, _, _, _)
FixedRowResults(cells, source, i, width, dashes) ==
    IF i > Len(cells) THEN <<>>
    ELSE LET RECURSIVE Columns(_)
             Columns(c) ==
                 IF c >= width THEN <<>>
                 ELSE SingleWinnerResult(cells, source, i, i + c, dashes) \o Columns(c + 1)
         IN  Columns(1) \o FixedRowResults(cells, source, i + width, width, dashes)

\* the zomercyclus rows with the en dash as the only placeholder dash
ZomercyclusRowsButHyphen ==
    (Interpreted /\ PageSource.category = "zomercyclus") =>
        allResults = FixedRowResults(PageCells, PageSource, 3, 2, EnDashOnly)

\* C13: for a zomercyclus source the first 2 cells are skipped, and each
\* following pair (year, winner) yields exactly one Result with that year and
\* that one winner when the year cell is 4 digits and the winner cell is not a
\* placeholder, and nothing otherwise.
C13_ZomercyclusRows ==
    (Interpreted /\ PageSource.category = "zomercyclus") =>
        allResults = FixedRowResults(PageCells, PageSource, 3, 2, BothDashes)

\* the tete-a-tete rows with the en dash as the only placeholder dash
TeteATeteRowsButHyphen ==
    (Interpreted /\ PageSource.category = "tete-a-tete") =>
        allResults = FixedRowResults(PageCells, PageSource, 4, 3, EnDashOnly)

\* C18: for a tete-a-tete source the first 3 cells are skipped, and each
\* following triple (year, men, women) whose year cell is 4 digits yields one
\* Result per winner cell that is not a placeholder, the one of the men before
\* the one of the women, each with the year of the row and that one winner; a
\* triple whose first cell is not a year yields nothing.
C18_TeteATeteRows ==
    (Interpreted /\ PageSource.category = "tete-a-tete") =>
        allResults = FixedRowResults(PageCells, PageSource, 4, 3, BothDashes)

RECURSIVE PowerOfTwo(_)
PowerOfTwo(n) == IF n = 0 THEN 1 ELSE 2 * PowerOfTwo(n - 1)

\* C14: the wait before the k-th retry of a fetchUrl call is the base delay
\* times 2^(k-1), that is 500, 1000, 2000 ms with the defaults, whatever the
\* failures before it were (connection errors, retryable statuses, or both).
C14_BackoffDoubles ==
    /\ \A k \in 1..Len(waits) : waits[k] = DefaultDelayMs * PowerOfTwo(k - 1)
    /\ fetchState = "backoff" => currentDelay = waits[Len(waits)]
    /\ Len(waits) <= 3 /\ (Len(waits) = 3 => waits = <<500, 1000, 2000>>)

C14_Witness ==
    /\ fetchState = "backoff"
    /\ waits = <<500, 1000, 2000>>
    /\ lastOutcome = [kind |-> "status", statusCode |-> 429]
    /\ attempts = 3

\* the letter a character stands for when case and the listed accents are
\* ignored
BaseLetter(c) == FoldChar(ToLowerChar(c))

\* the words of a name: its maximal runs of characters that are not white
\* space, each character taken as its base letter
RECURSIVE BaseWords(_, _)
BaseWords(s, word) ==
    IF s = <<>> THEN (IF word = <<>> THEN <<>> ELSE <<word>>)
    ELSE IF Head(s) \in WhiteSpace
         THEN (IF word = <<>> THEN <<>> ELSE <<word>>) \o BaseWords(Tail(s), <<>>)
         ELSE BaseWords(Tail(s), Append(word, BaseLetter(Head(s))))

\* two names differ at most in letter case, in the listed accents, in white
\* space at the ends and in the length of the white space runs inside
SameNameButSpelling(a, b) == BaseWords(a, <<>>) = BaseWords(b, <<>>)

\* the two winners of the Result of SpecNames
NameA == allResults[1].winners[1]
NameB == allResults[1].winners[2]

\* C15: normalizeName gives the same key to two names that differ only in
\* letter case, in the listed accents, in leading or trailing white space or
\* in the length of internal white space runs, so that buildPlayerStats
\* credits both to one Player.
C15_NormalizeFoldsSpelling ==
    (Returned /\ SameNameButSpelling(NameA, NameB)) =>
        /\ normalizeName(NameA) = normalizeName(NameB)
        /\ Len(players) = 1
        /\ players[1].totalWins = 2

C15_Witness ==
    /\ Returned
    /\ NameA = <<"C", "E_acute", " ", " ">>
    /\ NameB = <<"c", "e">>
    /\ keyOrder = <<NameB>>
    /\ players[1].totalWins = 2

\* normalizeName was called on a value that is not a string: the TypeError
\* left buildPlayerStats and main, and main().catch ended the process
TypeErrorRaised == pc = "exit" /\ exitCode = 1 /\ written = "no"

\* C16: the Name Canonicalizer has no failure mode: for every winner name
\* applyNameMapping followed by normalizeName completes without an error, and
\* the candidate display name is a string, the name itself or a value of the
\* Name Mapping Table.
C16_CanonicalizerNeverFails ==
    /\ ~TypeErrorRaised
    /\ \A key \in DOMAIN playerMap :
           LET displayName == playerMap[key].displayName
           IN  /\ IsString(displayName)
               /\ \/ \E i \in 1..Len(Winners(allResults)) :
                         Winners(allResults)[i] = displayName
                  \/ \E k \in DOMAIN NAME_MAPPINGS : NAME_MAPPINGS[k] = displayName

\* the Results when every year cell starts a row and is never the Poule A
\* cell of the row before it
RECURSIVE DelimitedResults(_, _, _)
DelimitedResults(cells, source, i) ==
    IF i > Len(cells) THEN <<>>
    ELSE (IF IsYear(cells[i]) /\ i < Len(cells) /\ ~IsYear(cells[i + 1])
          THEN PouleAResult(cells, source, i)
          ELSE <<>>)
         \o DelimitedResults(cells, source, i + 1)

AdjacentYearCells(cells) ==
    \E i \in 1..(Len(cells) - 1) : IsYear(cells[i]) /\ IsYear(cells[i + 1])

\* on a page without a year cell directly after a year cell, every year cell
\* starts a row
YearCellsDelimitRowsUnlessAdjacent ==
    (Interpreted /\ IsVariableWidth(PageSource) /\ ~AdjacentYearCells(PageCells)) =>
        allResults = DelimitedResults(PageCells, PageSource, 1)

\* C17: in a variable-width category every cell of exactly 4 digits starts a
\* new row with that year and is never taken as the winner text of the row
\* before it, so no Result has a winner entry that is a year token, also when
\* a year cell directly follows a year cell.
C17_YearCellsDelimitRows ==
    (Interpreted /\ IsVariableWidth(PageSource)) =>
        /\ allResults = DelimitedResults(PageCells, PageSource, 1)
        /\ \A r \in 1..Len(allResults) :
               \A w \in 1..Len(allResults[r].winners) : ~IsYear(allResults[r].winners[w])

\* a Result as the specification defines it: poule "A", a year of 4 digits
\* and at least one winner, every winner a non-empty string
WellFormed(result) ==
    /\ result.poule = "A"
    /\ result.year >= 1000 /\ result.year <= 9999
    /\ Len(result.winners) > 0
    /\ \A w \in 1..Len(result.winners) :
           IsString(result.winners[w]) /\ result.winners[w] # <<>>

\* the same with the year an integer from 0 to 9999
WellFormedButYear(result) ==
    /\ result.poule = "A"
    /\ result.year >= 0 /\ result.year <= 9999
    /\ Len(result.winners) > 0
    /\ \A w \in 1..Len(result.winners) :
           IsString(result.winners[w]) /\ result.winners[w] # <<>>

ResultsWellFormedButYear ==
    Interpreted => \A r \in 1..Len(allResults) : WellFormedButYear(allResults[r])

\* C19: for every cell sequence, also one that ends directly after a year
\* cell or in the middle of a row, and every source, processData returns, and
\* every Result it emits has poule "A", a year from 1000 to 9999 and a
\* non-empty winners list of non-empty strings.
C19_ResultsWellFormed ==
    Interpreted => \A r \in 1..Len(allResults) : WellFormed(allResults[r])

\* while an attempt waits, the events of the network can end it and no step
\* of the process can
OnlyNetworkEndsAttempt ==
    fetchState = "attempting" => (ENABLED NetworkEvent /\ ~ENABLED ProcessStep)

\* C20: every fetchUrl call settles in every execution: an attempt that gets
\* neither a complete response nor a connection error is ended by the process
\* itself (the timeout of the request), so that a waiting attempt always has
\* a step of the process ahead of it and the run moves on.
C20_WaitingAttemptIsEndedByProcess ==
    fetchState = "attempting" => ENABLED ProcessStep

-----------------------------------------------------------------------------
(* Properties of the page *)

\* row a may stand above row b under the given sort setting
MayPrecede(a, b, sort) ==
    LET before ==
            IF sort.column = "name"
            THEN localeCompare(ToLowerCase(a.displayName), ToLowerCase(b.displayName))
            ELSE IF sort.column = "total" THEN a.totalWins - b.totalWins
            ELSE IF sort.column = "rank" THEN 0
            ELSE LET key == CHOOSE k \in DOMAIN CATEGORY_MAP : CATEGORY_MAP[k] = sort.column
                 IN  WinsIn(a, key) - WinsIn(b, key)
    IN  IF sort.direction = "asc" THEN before <= 0 ELSE before >= 0

RowsOrderedBy(rows, sort) ==
    \A i, j \in 1..Len(rows) : i < j => MayPrecede(rows[i], rows[j], sort)

\* the table body shows rows that lie in the order of currentSort, and the
\* sort icon, once the script has set it, shows currentSort
ShownInCurrentOrder ==
    /\ dom.tbody.kind = "rows" => RowsOrderedBy(dom.tbody.rows, currentSort)
    /\ dom.sortIcon # StaticIcon => dom.sortIcon = currentSort

\* a click on a header cell leaves the rows in the order of the new setting
SortClickOrdersRows ==
    [][currentSort' # currentSort =>
           /\ dom'.sortIcon = currentSort'
           /\ dom'.tbody.rows = filteredPlayers'
           /\ RowsOrderedBy(filteredPlayers', currentSort')]_vars

\* C21: after any sequence of clicks on header cells, search inputs and
\* changes of the minimum of wins, the rows shown are in the order of the
\* current sort setting, the one the sort icon of the header shows.
C21_RowsFollowSortSetting == ShownInCurrentOrder

\* loadData has ended in its catch block
LoadFailed == loadResult \in {"abort", "http", "network", "json"}

\* the table body shows the message of showError
ShowsError == dom.tbody = [kind |-> "error", message |-> ErrorMessage(loadResult), rows |-> <<>>]

\* from the catch block of loadData until init goes on, the table body shows
\* the error message
ErrorShownUntilInitGoesOn == (initPc = "loaded" /\ LoadFailed) => ShowsError

\* C22: when loading the file fails, the error message showError put in the
\* table body is what the table body shows when init() has finished: the
\* rest of init() does not replace it.
C22_ErrorMessageSurvivesInit ==
    [][(LoadFailed /\ initPc = "loaded" /\ initPc' = "ready") =>
           (dom'.tbody = dom.tbody /\ dom'.tbody.kind = "error")]_vars

=============================================================================
